---------------------------- MODULE Spec2Model ----------------------------
(***************************************************************************)
(* A model of simodima/serene:                                             *)
(*   - log: the context attribute stores (AddLabelAttrs, addECSAttrs,      *)
(*     GetLabelAttrs, GetECSAttrs), the extractors and                     *)
(*     HTTPAttributesMiddleware;                                           *)
(*   - log/ecshandler: ECSHandler.Handle over slog's JSON handler;         *)
(*   - httputils: ApplyMiddlewares;                                        *)
(*   - healthz: HealthzHandler.                                            *)
(*                                                                         *)
(* Go slices are modelled as (backing array, length) pairs over a heap of  *)
(* arrays, so that append's in-place writes into spare capacity and the    *)
(* sharing of a backing array between slices are part of the model.        *)
(***************************************************************************)
EXTENDS Integers, Sequences, FiniteSets, TLC

VARIABLES
    heap,      \* the backing arrays of all []slog.Attr slices, by allocation order
    ctxs,      \* the context.WithValue nodes created so far
    owned,     \* a slice owned by calling code, passed as AddLabelAttrs(ctx, owned...)
    layers,    \* the HTTPAttributesMiddleware instances, in declaration order
    req,       \* the inbound request (method, headers)
    rootCtx,   \* r.Context() of the inbound request
    hopts,     \* the options the ECSHandler was built with
    recLevel,  \* the level of the record the application handler logs
    handler,   \* the handler ApplyMiddlewares returned
    phase,     \* "config", "ready", "serving", "done"
    stack,     \* the ServeHTTP activations of the request being served
    out,       \* what the JSON sink wrote, one element per record
    events,    \* the observable steps of the request, in order
    checks,    \* healthz: the outcome each registered dependencyCheck returns
    idx,       \* healthz: loop position of the /status handler
    deps,      \* healthz: local deps
    status,    \* healthz: local status
    resp       \* healthz: the encoded response, or NoResp

storeVars == <<heap, ctxs, owned>>
reqVars == <<layers, req, rootCtx, hopts, recLevel, handler, phase, stack, out, events>>
healthVars == <<checks, idx, deps, status, resp>>
vars == <<heap, ctxs, owned, layers, req, rootCtx, hopts, recLevel, handler, phase,
          stack, out, events, checks, idx, deps, status, resp>>

----------------------------------------------------------------------------
(* Bounds *)

MaxCtx == 3
MaxOwnedCap == 3
MaxLayers == 2
MaxChecks == 3

----------------------------------------------------------------------------
(* Sequences *)

Range(s) == {s[i] : i \in 1..Len(s)}

RECURSIVE Reverse(_)
Reverse(s) == IF s = <<>> THEN <<>> ELSE Append(Reverse(Tail(s)), Head(s))

RECURSIVE SeqsUpTo(_, _)
SeqsUpTo(S, n) ==
    IF n = 0 THEN {<<>>}
    ELSE LET shorter == SeqsUpTo(S, n - 1)
         IN shorter \cup {Append(s, x) : s \in shorter, x \in S}

----------------------------------------------------------------------------
(* slog.Attr and Go slices *)

Attr(k, v) == [key |-> k, val |-> v]

\* slog.Attr{}: the zero value, which make() and growslice fill fresh cells with.
ZeroAttr == Attr("", "")

\* A slice without backing array: nil, or []slog.Attr{} (len 0, cap 0).
EmptySlice == [arr |-> 0, len |-> 0]

Cap(h, s) == IF s.arr = 0 THEN 0 ELSE Len(h[s.arr])

Contents(h, s) == IF s.arr = 0 THEN <<>> ELSE SubSeq(h[s.arr], 1, s.len)

Zeros(n) == [i \in 1..n |-> ZeroAttr]

\* The capacity growslice picks: the needed length when it exceeds twice the old
\* capacity, otherwise twice the old capacity (small slices).
GrowCap(old, need) == IF need > 2 * old THEN need ELSE 2 * old

\* Go's append(s, xs...): writes into the spare capacity of s's backing array when
\* xs fits, otherwise copies into a fresh array. xs is read before the write
\* (memmove), so xs may alias s's array.
GoAppend(h, s, xs) ==
    IF xs = <<>> THEN [heap |-> h, slice |-> s]
    ELSE IF s.len + Len(xs) <= Cap(h, s)
    THEN LET old == h[s.arr]
             new == SubSeq(old, 1, s.len) \o xs
                    \o SubSeq(old, s.len + Len(xs) + 1, Len(old))
         IN [heap |-> [h EXCEPT ![s.arr] = new],
             slice |-> [arr |-> s.arr, len |-> s.len + Len(xs)]]
    ELSE LET need == s.len + Len(xs)
             new == Contents(h, s) \o xs \o Zeros(GrowCap(Cap(h, s), need) - need)
         IN [heap |-> Append(h, new),
             slice |-> [arr |-> Len(h) + 1, len |-> need]]

\* The slice the compiler builds for a call f(ctx, a1, ..., an) with listed
\* arguments: a fresh array of exactly n cells.
VariadicArgs(h, xs) ==
    IF xs = <<>> THEN [heap |-> h, slice |-> EmptySlice]
    ELSE [heap |-> Append(h, xs), slice |-> [arr |-> Len(h) + 1, len |-> Len(xs)]]

----------------------------------------------------------------------------
(* The context attribute stores *)

labelsAttributes == "labels"
ecsAttributes == "ecs"

\* context.Background()
Background == 0

\* ctx.Value(key): the value of the nearest node on the parent chain with that key.
RECURSIVE CtxValue(_, _, _)
CtxValue(cs, c, key) ==
    IF c = Background THEN [ok |-> FALSE, val |-> EmptySlice]
    ELSE IF cs[c].key = key THEN [ok |-> TRUE, val |-> cs[c].val]
    ELSE CtxValue(cs, cs[c].parent, key)

GetLabelAttrs(cs, c) ==
    LET loaded == CtxValue(cs, c, labelsAttributes)
    IN IF loaded.ok THEN loaded.val ELSE EmptySlice

GetECSAttrs(cs, c) ==
    LET loaded == CtxValue(cs, c, ecsAttributes)
    IN IF loaded.ok THEN loaded.val ELSE EmptySlice

\* context.WithValue(ctx, key, attrs); "added" records the attributes the call was given.
WithValue(cs, c, key, slice, given) ==
    Append(cs, [parent |-> c, key |-> key, val |-> slice, added |-> given])

\* Mutant: the store is left unattached when the call is given no attributes.
AddAttrsResultSkipEmpty(h, cs, c, key, attrs, stored) ==
    IF attrs.len = 0 THEN [heap |-> h, ctxs |-> cs, ctx |-> c]
    ELSE LET r == GoAppend(h, attrs, Contents(h, stored))
         IN [heap |-> r.heap,
             ctxs |-> WithValue(cs, c, key, r.slice, Contents(h, attrs)),
             ctx |-> Len(cs) + 1]

\* Mutant: the new attributes are appended to the stored ones, append(stored, attrs...).
AddAttrsResultStoredFirst(h, cs, c, key, attrs, stored) ==
    LET r == GoAppend(h, stored, Contents(h, attrs))
    IN [heap |-> r.heap,
        ctxs |-> WithValue(cs, c, key, r.slice, Contents(h, attrs)),
        ctx |-> Len(cs) + 1]

\* attrs = append(attrs, stored...); return context.WithValue(ctx, key, attrs)
AddAttrsResult(h, cs, c, key, attrs, stored) ==
    LET r == GoAppend(h, attrs, Contents(h, stored))
    IN [heap |-> r.heap,
        ctxs |-> WithValue(cs, c, key, r.slice, Contents(h, attrs)),
        ctx |-> Len(cs) + 1]

AddLabelAttrs(h, cs, c, attrs) ==
    AddAttrsResult(h, cs, c, labelsAttributes, attrs, GetLabelAttrs(cs, c))

addECSAttrs(h, cs, c, attrs) ==
    AddAttrsResult(h, cs, c, ecsAttributes, attrs, GetECSAttrs(cs, c))

\* What the getters show of a context right now.
LabelSeq(c) == Contents(heap, GetLabelAttrs(ctxs, c))
ECSSeq(c) == Contents(heap, GetECSAttrs(ctxs, c))

----------------------------------------------------------------------------
(* Extractors and requests *)

HeaderNames == {"Authorization", "X-Source"}

HeaderExtractor(name, rename) == [kind |-> "header", name |-> name, rename |-> rename]

\* The extractor WithDefaultInfo registers.
MethodExtractor == [kind |-> "method", name |-> "", rename |-> "http.request.method"]

\* ExtractHeaderRename(name, rename)(r), and WithDefaultInfo's closure.
Extract(e, r) ==
    IF e.kind = "method" THEN [attr |-> Attr(e.rename, r.method), ok |-> TRUE]
    ELSE IF r.header[e.name] # "" THEN [attr |-> Attr(e.rename, r.header[e.name]), ok |-> TRUE]
    ELSE [attr |-> ZeroAttr, ok |-> FALSE]

\* The extraction loop: a local slice starting as []slog.Attr{} and grown by
\* append once per extractor that returns ok.
RECURSIVE CollectInto(_, _, _, _)
CollectInto(h, s, exts, r) ==
    IF exts = <<>> THEN [heap |-> h, slice |-> s]
    ELSE LET e == Extract(Head(exts), r)
             a == IF e.ok THEN GoAppend(h, s, <<e.attr>>) ELSE [heap |-> h, slice |-> s]
         IN CollectInto(a.heap, a.slice, Tail(exts), r)

RunExtractors(h, exts, r) == CollectInto(h, EmptySlice, exts, r)

\* The present results of a list of extractors, in declared order.
RECURSIVE Present(_, _)
Present(exts, r) ==
    IF exts = <<>> THEN <<>>
    ELSE LET e == Extract(Head(exts), r)
         IN (IF e.ok THEN <<e.attr>> ELSE <<>>) \o Present(Tail(exts), r)

\* ctx := addECSAttrs(r.Context(), ecsAttributes...)
AttachECS(h, cs, c, layer, r) ==
    LET got == RunExtractors(h, layer.ecsExtractors, r)
    IN addECSAttrs(got.heap, cs, c, got.slice)

\* ctx = AddLabelAttrs(ctx, labelAttributes...)
AttachLabels(h, cs, c, layer, r) ==
    LET got == RunExtractors(h, layer.labelExtractors, r)
    IN AddLabelAttrs(got.heap, cs, c, got.slice)

Layer(ecs, lbl, logReq) ==
    [ecsExtractors |-> ecs, labelExtractors |-> lbl, logRequest |-> logReq]

\* The middleware configurations considered.
LayerConfigs ==
    { Layer(<<>>, <<>>, FALSE),
      Layer(<<HeaderExtractor("Authorization", "auth.token"), MethodExtractor>>,
            <<HeaderExtractor("X-Source", "source")>>, TRUE),
      Layer(<<HeaderExtractor("X-Source", "level"),
              HeaderExtractor("Authorization", "auth.token")>>,
            <<HeaderExtractor("Authorization", "user"),
              HeaderExtractor("X-Source", "origin"),
              HeaderExtractor("Authorization", "user")>>, FALSE),
      Layer(<<HeaderExtractor("X-Source", "ecs.version")>>,
            <<HeaderExtractor("X-Source", "origin")>>, TRUE) }

Requests ==
    { [method |-> "GET", header |-> [n \in HeaderNames |-> hv[n]]] :
        hv \in [HeaderNames -> {"", "abc"}] }


----------------------------------------------------------------------------
(* The store API driven by calling code: specification SpecStore *)

LiteralAttrs == {Attr("custom_key", "custom_value"), Attr("user", "u1")}

NoResp == [status |-> "", dependencies |-> <<>>]

\* The variables of the request pipeline and of healthz, at rest.
ReqIdle ==
    /\ layers = <<>>
    /\ req = [method |-> "GET", header |-> [n \in HeaderNames |-> ""]]
    /\ rootCtx = Background
    /\ hopts = [levelRenamer |-> "default", replaceAttr |-> "default"]
    /\ recLevel = 0
    /\ handler = <<>>
    /\ phase = "config"
    /\ stack = <<>>
    /\ out = <<>>
    /\ events = <<>>

HealthIdle ==
    /\ checks = <<>>
    /\ idx = 0
    /\ deps = <<>>
    /\ status = ""
    /\ resp = NoResp

\* Calling code holds one slice made as make([]slog.Attr, 1, cap), cell 0 set.
InitStore ==
    /\ \E cap \in 1..MaxOwnedCap :
          heap = << <<Attr("owned", "o")>> \o Zeros(cap - 1) >>
    /\ owned = [arr |-> 1, len |-> 1]
    /\ ctxs = <<>>
    /\ ReqIdle
    /\ HealthIdle

Contexts == 0..Len(ctxs)

\* log.AddLabelAttrs(ctx, a)
CallAddLabelAttrs(c, a) ==
    /\ Len(ctxs) < MaxCtx
    /\ LET args == VariadicArgs(heap, <<a>>)
           r == AddLabelAttrs(args.heap, ctxs, c, args.slice)
       IN /\ heap' = r.heap
          /\ ctxs' = r.ctxs
    /\ UNCHANGED <<owned, reqVars, healthVars>>

\* log.AddLabelAttrs(ctx, owned...)
CallAddLabelAttrsOwned(c) ==
    /\ Len(ctxs) < MaxCtx
    /\ LET r == AddLabelAttrs(heap, ctxs, c, owned)
       IN /\ heap' = r.heap
          /\ ctxs' = r.ctxs
    /\ UNCHANGED <<owned, reqVars, healthVars>>

\* One HTTPAttributesMiddleware layer deriving its context from ctx c for request r.
CallMiddleware(c, layer, r) ==
    /\ Len(ctxs) + 2 <= MaxCtx
    /\ LET e == AttachECS(heap, ctxs, c, layer, r)
           l == AttachLabels(e.heap, e.ctxs, e.ctx, layer, r)
       IN /\ heap' = l.heap
          /\ ctxs' = l.ctxs
    /\ UNCHANGED <<owned, reqVars, healthVars>>

NextStore ==
    \/ \E c \in Contexts, a \in LiteralAttrs : CallAddLabelAttrs(c, a)
    \/ \E c \in Contexts : CallAddLabelAttrsOwned(c)
    \/ \E c \in Contexts, layer \in LayerConfigs, r \in Requests : CallMiddleware(c, layer, r)

SpecStore == InitStore /\ [][NextStore]_vars

\* The nodes on c's parent chain (c included) that hold a labels store.
RECURSIVE LabelAncestors(_, _)
LabelAncestors(cs, c) ==
    IF c = Background THEN {}
    ELSE (IF cs[c].key = labelsAttributes THEN {c} ELSE {})
         \cup LabelAncestors(cs, cs[c].parent)

\* C2: every attribute given to AddLabelAttrs on a context or on one of its
\* ancestors is contained in what GetLabelAttrs returns for that context, whatever
\* AddLabelAttrs calls were made since (stores accumulate, never overwrite).
C2_Accumulates ==
    \A c \in 1..Len(ctxs) :
        \A d \in LabelAncestors(ctxs, c) :
            Range(ctxs[d].added) \subseteq Range(LabelSeq(c))

\* C9: no AddLabelAttrs / addECSAttrs call changes what GetLabelAttrs / GetECSAttrs
\* return for a context that already exists, also when the caller passes a slice
\* of its own more than once.
C9_NeverMutatedInPlace ==
    [][\A c \in 1..Len(ctxs) : LabelSeq(c)' = LabelSeq(c) /\ ECSSeq(c)' = ECSSeq(c)]_vars


----------------------------------------------------------------------------
(* ECSHandler over slog's JSON handler *)

ecsVersion == "8.11.0"
logger == "log/slog"

ecsVersionKey == "ecs.version"
timestampKey == "@timestamp"
messageKey == "message"
logLevelKey == "log.level"
logLoggerKey == "log.logger"
fileNameKey == "file.name"
fileLineKey == "file.line"
logOriginKey == "log.origin"
functionKey == "function"
labelsKey == "labels"

\* slog.LevelInfo and slog.LevelError
Levels == {0, 8}

\* slog.Level.String() on the named levels.
LevelString(l) ==
    CASE l = -4 -> "DEBUG"
      [] l = 0 -> "INFO"
      [] l = 4 -> "WARN"
      [] l = 8 -> "ERROR"

\* strings.ToLower on the level names.
ToLower(s) ==
    CASE s = "DEBUG" -> "debug"
      [] s = "INFO" -> "info"
      [] s = "WARN" -> "warn"
      [] s = "ERROR" -> "error"

\* Mutant: the configured renamer is ignored.
LevelRenamerIgnored(o, l) == LevelString(l)

\* h.levelRenamer: defaultOptions' (level.String()), or the renamer of TestECSHandler.
LevelRenamer(o, l) ==
    IF o.levelRenamer = "default" THEN LevelString(l)
    ELSE "renamed_" \o ToLower(LevelString(l))

\* The ReplaceAttr function the JSON handler was built with:
\*   "default": defaultOptions.replaceAttr, which looks at the key alone;
\*   "nil":     none (a JSONHandler built with empty HandlerOptions);
\*   "custom":  one given with WithReplaceAttr, here one that strips the ECS
\*              metadata attributes.
ReplaceAttr(o, groups, a) ==
    CASE o.replaceAttr = "default" ->
            IF a.key \in {"time", "msg", "source", "level"} THEN ZeroAttr ELSE a
      [] o.replaceAttr = "nil" -> a
      [] o.replaceAttr = "custom" ->
            IF a.key \in {ecsVersionKey, logLoggerKey, logLevelKey} THEN ZeroAttr ELSE a

\* A top-level attribute of a record: a string, or a group of string attributes.
StringAttr(k, v) == [key |-> k, kind |-> "string", val |-> v, attrs |-> <<>>]
GroupAttr(k, as) == [key |-> k, kind |-> "group", val |-> "", attrs |-> as]

RECURSIVE AsStringAttrs(_)
AsStringAttrs(as) ==
    IF as = <<>> THEN <<>>
    ELSE <<StringAttr(Head(as).key, Head(as).val)>> \o AsStringAttrs(Tail(as))

\* Mutant: the ECS version and logger attributes are not added.
HandleAttrsNoMetadata(o, r, labels, plainAttributes) ==
    << StringAttr(timestampKey, r.time),
       StringAttr(messageKey, r.msg),
       StringAttr(logLevelKey, LevelRenamer(o, r.level)),
       GroupAttr(labelsKey, labels),
       GroupAttr(logOriginKey, << Attr(fileNameKey, r.file), Attr(fileLineKey, r.line),
                                  Attr(functionKey, r.function) >>) >>
    \o AsStringAttrs(plainAttributes)

\* allAttributes of Handle: the fixed ECS attributes, the labels group, the log
\* origin group, then the ECS store's attributes.
HandleAttrs(o, r, labels, plainAttributes) ==
    << StringAttr(timestampKey, r.time),
       StringAttr(messageKey, r.msg),
       StringAttr(logLevelKey, LevelRenamer(o, r.level)),
       StringAttr(ecsVersionKey, ecsVersion),
       StringAttr(logLoggerKey, logger),
       GroupAttr(labelsKey, labels),
       GroupAttr(logOriginKey, << Attr(fileNameKey, r.file), Attr(fileLineKey, r.line),
                                  Attr(functionKey, r.function) >>) >>
    \o AsStringAttrs(plainAttributes)

\* The JSON handler on the members of a group: ReplaceAttr on each, the ones it
\* returns empty left out.
RECURSIVE WriteMembers(_, _, _)
WriteMembers(o, groups, as) ==
    IF as = <<>> THEN <<>>
    ELSE LET a == ReplaceAttr(o, groups, Head(as))
         IN (IF a = ZeroAttr THEN <<>> ELSE <<a>>) \o WriteMembers(o, groups, Tail(as))

\* The JSON handler on a list of top-level attributes: ReplaceAttr on each string
\* attribute and on each member of a group (never on the group itself); empty
\* attributes and groups without members are left out.
RECURSIVE WriteAttrs(_, _)
WriteAttrs(o, es) ==
    IF es = <<>> THEN <<>>
    ELSE LET e == Head(es)
             written ==
                 IF e.kind = "group"
                 THEN LET ms == WriteMembers(o, <<e.key>>, e.attrs)
                      IN IF ms = <<>> THEN <<>> ELSE <<GroupAttr(e.key, ms)>>
                 ELSE LET a == ReplaceAttr(o, <<>>, Attr(e.key, e.val))
                      IN IF a = ZeroAttr THEN <<>> ELSE <<StringAttr(a.key, a.val)>>
         IN written \o WriteAttrs(o, Tail(es))

\* h.JSONHandler.Handle(ctx, r): the built-in time, level and msg attributes, then
\* the record's attributes, in order, as the keys and values of one JSON object.
JSONHandle(o, r, attrs) ==
    WriteAttrs(o, << StringAttr("time", r.time), StringAttr("level", LevelString(r.level)),
                     StringAttr("msg", r.msg) >> \o attrs)

\* ECSHandler.Handle(ctx, r)
Handle(h, cs, o, c, r) ==
    LET labels == Contents(h, GetLabelAttrs(cs, c))
        plainAttributes == Contents(h, GetECSAttrs(cs, c))
    IN JSONHandle(o, r, r.attrs \o HandleAttrs(o, r, labels, plainAttributes))

Record(level, msg) ==
    [time |-> "t", level |-> level, msg |-> msg, attrs |-> <<>>,
     file |-> "main.go", line |-> "1", function |-> "main.handler"]

\* One line of output, with what it was emitted from.
Emitted(kind, c, r) ==
    [kind |-> kind, ctx |-> c, level |-> r.level,
     json |-> Handle(heap, ctxs, hopts, c, r)]

----------------------------------------------------------------------------
(* ApplyMiddlewares *)

\* The application's handler; a handler is the list of what runs, outermost first.
BaseHandler == <<0>>

\* h(base) for the middleware with index m
Wrap(m, base) == <<m>> \o base

\* Mutant: the first-declared middleware ends up outermost.
RECURSIVE ApplyMiddlewaresFirstOutermost(_, _)
ApplyMiddlewaresFirstOutermost(base, middlewares) ==
    IF middlewares = <<>> THEN base
    ELSE Wrap(Head(middlewares), ApplyMiddlewaresFirstOutermost(base, Tail(middlewares)))

RECURSIVE ApplyMiddlewares(_, _)
ApplyMiddlewares(base, middlewares) ==
    IF middlewares = <<>> THEN base
    ELSE ApplyMiddlewares(Wrap(Head(middlewares), base), Tail(middlewares))


----------------------------------------------------------------------------
(* One request through the composed handler: specification Spec *)

StoreIdle == owned = EmptySlice

\* The context the server hands in: context.Background(), or one on which code
\* upstream of the chain has called log.AddLabelAttrs(ctx, slog.String("upstream", "u")).
UpstreamCtx ==
    LET args == VariadicArgs(<<>>, <<Attr("upstream", "u")>>)
    IN AddLabelAttrs(args.heap, <<>>, Background, args.slice)

Init ==
    /\ layers \in SeqsUpTo(LayerConfigs, MaxLayers)
    /\ req \in Requests
    /\ hopts \in [levelRenamer : {"default", "custom"},
                  replaceAttr : {"default", "nil", "custom"}]
    /\ recLevel \in Levels
    /\ \/ heap = <<>> /\ ctxs = <<>> /\ rootCtx = Background
       \/ heap = UpstreamCtx.heap /\ ctxs = UpstreamCtx.ctxs /\ rootCtx = UpstreamCtx.ctx
    /\ handler = BaseHandler
    /\ phase = "config"
    /\ stack = <<>>
    /\ out = <<>>
    /\ events = <<>>
    /\ StoreIdle
    /\ HealthIdle

\* The activation of handler position pos on a request whose context is c.
Frame(h, pos, c) ==
    [pos |-> pos, layer |-> h[pos], pc |-> IF h[pos] = 0 THEN "base" ELSE "ecs",
     inctx |-> c, ectx |-> c, ctx |-> c]

Top == stack[Len(stack)]

SetTop(f) == [stack EXCEPT ![Len(stack)] = f]

Event(ev, f, from, to) ==
    [ev |-> ev, pos |-> f.pos, layer |-> f.layer, inctx |-> f.inctx, from |-> from, to |-> to]

\* Mutant: the summary is logged whatever the flag.
LogsRequestAlways(layer) == TRUE

\* options.logRequest
LogsRequest(layer) == layer.logRequest

\* wrapped := ApplyMiddlewares(base, m1, ..., mn)
Build ==
    /\ phase = "config"
    /\ handler' = ApplyMiddlewares(BaseHandler, [i \in 1..Len(layers) |-> i])
    /\ phase' = "ready"
    /\ UNCHANGED <<heap, ctxs, owned, layers, req, rootCtx, hopts, recLevel, stack, out,
                   events, healthVars>>

\* wrapped.ServeHTTP(w, r)
Serve ==
    /\ phase = "ready"
    /\ stack' = <<Frame(handler, 1, rootCtx)>>
    /\ phase' = "serving"
    /\ UNCHANGED <<heap, ctxs, owned, layers, req, rootCtx, hopts, recLevel, handler, out,
                   events, healthVars>>

\* The ECS extractors run and their results are attached.
ExtractECS ==
    /\ phase = "serving" /\ Top.pc = "ecs"
    /\ LET r == AttachECS(heap, ctxs, Top.inctx, layers[Top.layer], req)
       IN /\ heap' = r.heap
          /\ ctxs' = r.ctxs
          /\ stack' = SetTop([Top EXCEPT !.pc = "labels", !.ectx = r.ctx, !.ctx = r.ctx])
          /\ events' = Append(events, Event("ecs", Top, Top.inctx, r.ctx))
    /\ UNCHANGED <<owned, layers, req, rootCtx, hopts, recLevel, handler, phase, out,
                   healthVars>>

\* The label extractors run and their results are attached.
ExtractLabels ==
    /\ phase = "serving" /\ Top.pc = "labels"
    /\ LET r == AttachLabels(heap, ctxs, Top.ectx, layers[Top.layer], req)
       IN /\ heap' = r.heap
          /\ ctxs' = r.ctxs
          /\ stack' = SetTop([Top EXCEPT !.pc = "call", !.ctx = r.ctx])
          /\ events' = Append(events, Event("labels", Top, Top.ectx, r.ctx))
    /\ UNCHANGED <<owned, layers, req, rootCtx, hopts, recLevel, handler, phase, out,
                   healthVars>>

\* h.ServeHTTP(w, r.WithContext(ctx))
CallNext ==
    /\ phase = "serving" /\ Top.pc = "call"
    /\ stack' = Append(SetTop([Top EXCEPT !.pc = "wait"]), Frame(handler, Top.pos + 1, Top.ctx))
    /\ events' = Append(events, Event("call", Top, Top.ctx, Top.ctx))
    /\ UNCHANGED <<heap, ctxs, owned, layers, req, rootCtx, hopts, recLevel, handler, phase,
                   out, healthVars>>

\* The stack once its top activation has returned.
Popped ==
    IF Len(stack) = 1 THEN <<>>
    ELSE [SubSeq(stack, 1, Len(stack) - 1) EXCEPT ![Len(stack) - 1].pc = "after"]

\* The application's handler: logs one record with the request's context, returns.
BaseServe ==
    /\ phase = "serving" /\ Top.pc = "base"
    /\ out' = Append(out, Emitted("app", Top.inctx, Record(recLevel, "handled by app")))
    /\ events' = Append(events, Event("base", Top, Top.inctx, Top.inctx))
    /\ stack' = Popped
    /\ phase' = IF Len(stack) = 1 THEN "done" ELSE phase
    /\ UNCHANGED <<heap, ctxs, owned, layers, req, rootCtx, hopts, recLevel, handler,
                   healthVars>>

\* if options.logRequest { slog.InfoContext(ctx, "HTTP Request handled") }, with
\* the ECSHandler as the default logger's handler.
Summary ==
    /\ phase = "serving" /\ Top.pc = "after"
    /\ IF LogsRequest(layers[Top.layer])
       THEN /\ out' = Append(out, Emitted("summary", Top.ctx, Record(0, "HTTP Request handled")))
            /\ events' = Append(events, Event("log", Top, Top.ctx, Top.ctx))
       ELSE UNCHANGED <<out, events>>
    /\ stack' = SetTop([Top EXCEPT !.pc = "ret"])
    /\ UNCHANGED <<heap, ctxs, owned, layers, req, rootCtx, hopts, recLevel, handler, phase,
                   healthVars>>

\* The middleware's handler returns to its caller.
Return ==
    /\ phase = "serving" /\ Top.pc = "ret"
    /\ events' = Append(events, Event("ret", Top, Top.ctx, Top.ctx))
    /\ stack' = Popped
    /\ phase' = IF Len(stack) = 1 THEN "done" ELSE phase
    /\ UNCHANGED <<heap, ctxs, owned, layers, req, rootCtx, hopts, recLevel, handler, out,
                   healthVars>>

Next ==
    \/ Build
    \/ Serve
    \/ ExtractECS
    \/ ExtractLabels
    \/ CallNext
    \/ BaseServe
    \/ Summary
    \/ Return

Spec == Init /\ [][Next]_vars


----------------------------------------------------------------------------
(* Properties of the request pipeline *)

IsPrefix(s, t) == Len(s) <= Len(t) /\ s = SubSeq(t, 1, Len(s))

LayersOf(es) == [i \in 1..Len(es) |-> es[i].layer]

IsEntry(e) == e.ev \in {"ecs", "base"}
IsExit(e) == e.ev \in {"ret"}

EvIdx(ev, pos) == {j \in 1..Len(events) : events[j].ev = ev /\ events[j].pos = pos}

HasTop(json, k, v) ==
    \E i \in 1..Len(json) : json[i].kind = "string" /\ json[i].key = k /\ json[i].val = v

InGroup(json, g, a) ==
    \E i \in 1..Len(json) : json[i].kind = "group" /\ json[i].key = g /\ a \in Range(json[i].attrs)

Declared == [i \in 1..Len(layers) |-> i]

\* C1: on a request the handler ApplyMiddlewares returned runs every middleware's
\* wrapping effect exactly once, the last-declared middleware first, then the one
\* before it, ..., then the first-declared, then base; they return in the
\* opposite order.
C1_CompositionOrder ==
    phase \in {"serving", "done"} =>
        LET entered == LayersOf(SelectSeq(events, IsEntry))
            left == LayersOf(SelectSeq(events, IsExit))
        IN /\ IsPrefix(entered, Reverse(Declared) \o <<0>>)
           /\ IsPrefix(left, Declared)
           /\ phase = "done" => entered = Reverse(Declared) \o <<0>> /\ left = Declared

C1_Witness ==
    /\ phase = "done"
    /\ Len(layers) >= 2
    /\ layers[1] # layers[2]
    /\ LayersOf(SelectSeq(events, IsEntry))[1] = Len(layers)

\* C3: a record the application logs with the request's context contains, at top
\* level, key k with the header's value for every ExtractHeaderRename(h, k) among
\* the ECS extractors whose header the request carries, and contains every
\* attribute of the context's label store inside its "labels" group. Stated for
\* handlers built with the default options.
C3_EndToEnd ==
    \A n \in 1..Len(out) :
        (out[n].kind = "app" /\ hopts.replaceAttr = "default") =>
            /\ \A i \in 1..Len(layers) :
                 \A x \in 1..Len(layers[i].ecsExtractors) :
                    LET e == layers[i].ecsExtractors[x]
                    IN (e.kind = "header" /\ req.header[e.name] # "")
                          => HasTop(out[n].json, e.rename, req.header[e.name])
            /\ \A a \in Range(LabelSeq(out[n].ctx)) : InGroup(out[n].json, labelsKey, a)

\* C4 as claimed: whatever the context holds and whatever the handler's options,
\* every record handled has ecs.version = "8.11.0" and log.logger = "log/slog".
C4_FixedKeysAnyOptions ==
    \A n \in 1..Len(out) :
        /\ HasTop(out[n].json, ecsVersionKey, "8.11.0")
        /\ HasTop(out[n].json, logLoggerKey, "log/slog")

\* C4 amended: whatever the context holds, every record handled by a handler whose
\* ReplaceAttr function is the default one or none has ecs.version = "8.11.0" and
\* log.logger = "log/slog" among its top-level keys.
C4_FixedKeys ==
    \A n \in 1..Len(out) :
        hopts.replaceAttr \in {"default", "nil"} =>
            /\ HasTop(out[n].json, ecsVersionKey, "8.11.0")
            /\ HasTop(out[n].json, logLoggerKey, "log/slog")

C4_Witness ==
    \E n \in 1..Len(out) :
        /\ hopts.replaceAttr = "default"
        /\ LabelSeq(out[n].ctx) # <<>>
        /\ \E a \in Range(ECSSeq(out[n].ctx)) : a.key = ecsVersionKey
        /\ HasTop(out[n].json, ecsVersionKey, "8.11.0")

\* The text each renamer gives a level, written out.
RenamedText(renamer, l) ==
    IF renamer = "default"
    THEN (CASE l = 0 -> "INFO" [] l = 8 -> "ERROR")
    ELSE (CASE l = 0 -> "renamed_info" [] l = 8 -> "renamed_error")

NoneMatches(layer) ==
    /\ Present(layer.ecsExtractors, req) = <<>>
    /\ Present(layer.labelExtractors, req) = <<>>

Attached(e) ==
    /\ CtxValue(ctxs, e.to, labelsAttributes).ok
    /\ CtxValue(ctxs, e.to, ecsAttributes).ok

\* C6 as claimed: when no configured extractor returns a present result for the
\* request, both stores of the context handed to the wrapped handler are present
\* and empty.
C6_EmptyStores ==
    \A j \in 1..Len(events) :
        (events[j].ev = "call" /\ \A i \in 1..Len(layers) : NoneMatches(layers[i])) =>
            /\ Attached(events[j])
            /\ LabelSeq(events[j].to) = <<>>
            /\ ECSSeq(events[j].to) = <<>>

\* C6 amended: when none of the middleware's extractors returns a present result,
\* both stores of the context handed to the wrapped handler are present, and each
\* holds exactly what the incoming context's store held (nothing, when the
\* incoming context carries no store).
C6_StoresPresentAndInherited ==
    \A j \in 1..Len(events) :
        (events[j].ev = "call" /\ NoneMatches(layers[events[j].layer])) =>
            /\ Attached(events[j])
            /\ LabelSeq(events[j].to) = LabelSeq(events[j].inctx)
            /\ ECSSeq(events[j].to) = ECSSeq(events[j].inctx)
            /\ ~CtxValue(ctxs, events[j].inctx, labelsAttributes).ok
                   => LabelSeq(events[j].to) = <<>>
            /\ ~CtxValue(ctxs, events[j].inctx, ecsAttributes).ok
                   => ECSSeq(events[j].to) = <<>>

C6_Witness ==
    \E j \in 1..Len(events) :
        /\ events[j].ev = "call"
        /\ NoneMatches(layers[events[j].layer])
        /\ events[j].inctx = Background
        /\ Attached(events[j])
        /\ LabelSeq(events[j].to) = <<>>

\* C8: within one request through a middleware, both extractions and attaches
\* come before anything the wrapped handler does; the wrapped handler has
\* returned, and does nothing more, when the summary record is emitted; and the
\* summary is emitted once if LogRequest is set and never if it is not.
C8_RequestOrder ==
    /\ \A j \in 1..Len(events) :
          \A p \in 1..Len(layers) :
             (events[j].pos > p \/ (events[j].pos = p /\ events[j].ev = "call")) =>
                 \E a \in EvIdx("ecs", p), b \in EvIdx("labels", p) : a < b /\ b < j
    /\ \A p \in 1..Len(layers) :
          \A j \in EvIdx("log", p) :
             /\ \E k \in 1..(j - 1) : events[k].pos = p + 1 /\ events[k].ev \in {"ret", "base"}
             /\ \A k \in (j + 1)..Len(events) : events[k].pos <= p
             /\ \E c \in EvIdx("call", p) : c < j
    /\ \A p \in 1..Len(layers) :
          LET logs == Cardinality(EvIdx("log", p))
              lines == Cardinality({n \in 1..Len(out) :
                                      out[n].kind = "summary" /\ out[n].ctx \in
                                         {events[j].to : j \in EvIdx("labels", p)}})
          IN /\ logs = lines
             /\ logs <= 1
             /\ (p \in 1..Len(handler) /\ handler[p] # 0 /\ ~layers[handler[p]].logRequest)
                    => logs = 0
             /\ (EvIdx("ret", p) # {} /\ layers[handler[p]].logRequest) => logs = 1

C8_Witness ==
    /\ phase = "done"
    /\ Len(layers) = 2
    /\ layers[1].logRequest
    /\ ~layers[2].logRequest
    /\ Cardinality({n \in 1..Len(out) : out[n].kind = "summary"}) = 1

\* C10: the store the middleware attaches for each kind is the present results of
\* that kind's extractors in declared order (absent ones skipped, duplicates
\* kept) followed by what the parent context's store held, in its order; the ECS
\* attach leaves the labels store as it was and the labels attach leaves the ECS
\* store as it was.
C10_AttachedStores ==
    \A j \in 1..Len(events) :
        LET e == events[j]
        IN /\ e.ev = "ecs" =>
                /\ ECSSeq(e.to) = Present(layers[e.layer].ecsExtractors, req) \o ECSSeq(e.from)
                /\ CtxValue(ctxs, e.to, labelsAttributes) = CtxValue(ctxs, e.from, labelsAttributes)
           /\ e.ev = "labels" =>
                /\ LabelSeq(e.to) = Present(layers[e.layer].labelExtractors, req) \o LabelSeq(e.from)
                /\ CtxValue(ctxs, e.to, ecsAttributes) = CtxValue(ctxs, e.from, ecsAttributes)

C10_Witness ==
    \E j \in 1..Len(events) :
        /\ events[j].ev = "labels"
        /\ LabelSeq(events[j].from) # <<>>
        /\ Len(Present(layers[events[j].layer].labelExtractors, req)) = 3
        /\ Len(LabelSeq(events[j].to)) >= 4
        /\ \E a, b \in 1..Len(LabelSeq(events[j].to)) :
              a # b /\ LabelSeq(events[j].to)[a] = LabelSeq(events[j].to)[b]


----------------------------------------------------------------------------
(* healthz: specification SpecHealthz *)

Dependencies == {"db", "cache"}

\* What a dependencyCheck returns: (Dependency, bool)
CheckResults == [dep : Dependencies, ok : BOOLEAN]

InitHealth ==
    /\ checks \in SeqsUpTo(CheckResults, MaxChecks)
    /\ idx = 0
    /\ deps = <<>>
    /\ status = ""
    /\ resp = NoResp
    /\ heap = <<>>
    /\ ctxs = <<>>
    /\ StoreIdle
    /\ ReqIdle

\* Mutant: the status follows the last check alone.
StatusAfterLastWins(st, ok) == IF ok THEN "OK" ELSE "KO"

\* if !ok { status = "KO" }
StatusAfter(st, ok) == IF ~ok THEN "KO" ELSE st

\* GET /status arrives: deps := []Dependency{}; status := "OK"
StatusRequest ==
    /\ idx = 0
    /\ deps' = <<>>
    /\ status' = "OK"
    /\ idx' = 1
    /\ UNCHANGED <<checks, resp, storeVars, reqVars>>

\* One iteration of the loop over checks.
RunCheck ==
    /\ idx \in 1..Len(checks)
    /\ resp = NoResp
    /\ status' = StatusAfter(status, checks[idx].ok)
    /\ deps' = Append(deps, checks[idx].dep)
    /\ idx' = idx + 1
    /\ UNCHANGED <<checks, resp, storeVars, reqVars>>

\* json.NewEncoder(w).Encode(Status{Dependencies: deps, Status: status})
Encode ==
    /\ idx = Len(checks) + 1
    /\ resp = NoResp
    /\ resp' = [status |-> status, dependencies |-> deps]
    /\ UNCHANGED <<checks, idx, deps, status, storeVars, reqVars>>

NextHealth ==
    \/ StatusRequest
    \/ RunCheck
    \/ Encode

SpecHealthz == InitHealth /\ [][NextHealth]_vars

\* C7: the /status response says "KO" when at least one check returned false,
\* wherever it stands in the list and whatever later checks return, and "OK" when
\* all returned true; every check is called once, in order, and its dependency is
\* in the response.
C7_HealthStatus ==
    resp # NoResp =>
        /\ (\E i \in 1..Len(checks) : ~checks[i].ok) => resp.status = "KO"
        /\ (\A i \in 1..Len(checks) : checks[i].ok) => resp.status = "OK"
        /\ resp.dependencies = [i \in 1..Len(checks) |-> checks[i].dep]

C7_Witness ==
    /\ resp # NoResp
    /\ Len(checks) >= 2
    /\ ~checks[1].ok
    /\ checks[Len(checks)].ok
    /\ resp.status = "KO"
    /\ Len(resp.dependencies) = Len(checks)

=============================================================================
